---- MODULE Spec2Model ----
(***************************************************************************)
(* VVQuest API (src/api.py): the HTTP handlers over the search engine and  *)
(* its embedding service.  The handlers are translated from src/api.py;    *)
(* the engine behind them (services.image_search.ImageSearch and its       *)
(* embedding_service) is not part of src/ and is modelled from spec.md.    *)
(*                                                                         *)
(* Scheduling: every handler is an `async def` whose body never awaits, so *)
(* a handler runs to completion on the event loop: one action each.  The   *)
(* only concurrent activity is the background task queued by               *)
(* POST /generate-cache, which runs in a worker thread after the response  *)
(* and interleaves with the handlers step by step.                         *)
(***************************************************************************)
EXTENDS Integers, Sequences, FiniteSets, TLC

\* ------------------------------------------------------------- bounds
NumImages == 2        \* images of the corpus, ids 1..NumImages
MaxPending == 1       \* background tasks queued and not yet started

\* ------------------------------------------------------------- inputs
Catalog == {"clip-s", "clip-l"}        \* Config().models.embedding_models
ModelIds == Catalog \cup {"ghost"}     \* a model_id a request may carry
NoModel == "-"                         \* no model id (None)
ModeArgs == {"api", "local", "gpu"}    \* the {mode} path parameter
Keys == {"", "k1", "k2"}                \* api_key values ("" is empty/None)
Urls == {"", "u1"}                     \* base_url values
Queries == {"cat", "dog"}
Ks == {-1, 0, 1, NumImages + 1}        \* n_results of a SearchRequest
Images == 1 .. NumImages
Providers == Catalog \cup {"api"}      \* model identity of a provider

NoCache == [prov |-> NoModel, entries |-> <<>>]
NoGen == [prov |-> NoModel, next |-> 0, entries |-> <<>>]
NoResp == [op |-> "", arg |-> "", q |-> "", k |-> 0, status |-> 0,
           detail |-> "", results |-> <<>>, models |-> {},
           cfg |-> <<"", "", "", "">>]

VARIABLES
    alive,           \* the process is serving (startup did not raise)
    mode,            \* embedding_service.mode: "none" | "api" | "local"
    selected_model,  \* embedding_service.selected_model
    api_key,         \* embedding_service.api_key
    base_url,        \* embedding_service.base_url
    downloaded,      \* catalogued models marked downloaded
    weights_ok,      \* downloaded models whose weights on disk load
    cache,           \* the published cache: provenance and entries
    gen,             \* the generation in flight (NoGen: none)
    tasks,           \* background tasks queued by POST /generate-cache
    resp             \* the last step and what it answered (status 0: a
                     \* step of the background job, which answers nobody)

vars == <<alive, mode, selected_model, api_key, base_url, downloaded,
          weights_ok, cache, gen, tasks, resp>>


\* ------------------------------------------------- embedding provider
\* embed(input): a fixed vector per (provider identity, input), the same
\* at every call.  Two components are enough to order by cosine.
EmbedImage(p, i) ==
    CASE p = "clip-s" -> <<i, 0>>
      [] p = "clip-l" -> <<i - 1, 1>>
      [] OTHER        -> <<1, i - 2>>

EmbedText(p, q) ==
    CASE p = "clip-s" -> IF q = "cat" THEN <<1, 0>> ELSE <<-1, 1>>
      [] p = "clip-l" -> IF q = "cat" THEN <<1, 1>> ELSE <<-1, 1>>
      [] OTHER        -> IF q = "cat" THEN <<0, 1>> ELSE <<1, 0>>

Dot(a, b) == a[1] * b[1] + a[2] * b[2]

\* Cosine similarity dot(q,v) / (|q| * |v|), kept exact as the pair
\* (num, den) standing for num / sqrt(den).
Cosine(q, v) == [num |-> Dot(q, v), den |-> Dot(q, q) * Dot(v, v)]

Abs(x) == IF x < 0 THEN -x ELSE x

\* a >= b for two similarities: x |-> x*|x| is increasing, so compare the
\* signed squares num*|num| / den by cross-multiplication.
ScoreGeq(a, b) == a.num * Abs(a.num) * b.den >= b.num * Abs(b.num) * a.den

ScoreEq(a, b) == ScoreGeq(a, b) /\ ScoreGeq(b, a)

\* ------------------------------------------------------ mode controller
\* The model identity of the active provider.
ActiveId == IF mode = "local" THEN selected_model ELSE mode

get_mode == mode

get_model_name == selected_model

\* is_downloaded(model_id): a lookup; UnknownModel for an id that is not
\* configured.
is_model_downloaded(model_id) ==
    [err |-> IF model_id \in Catalog THEN "" ELSE "UnknownModel",
     val |-> model_id \in downloaded]

\* set_mode(mode, model_id?): the new ModeState, or the error that aborts
\* the switch before anything is committed.
set_mode(md, model_id) ==
    IF md = "api"
    THEN IF api_key = "" \/ base_url = ""
         THEN [err |-> "ConfigurationError", mode |-> mode,
               model |-> selected_model]
         ELSE [err |-> "", mode |-> "api", model |-> selected_model]
    ELSE LET m == IF model_id # NoModel THEN model_id ELSE selected_model
         IN  IF m = NoModel
             THEN [err |-> "ModelNotConfigured", mode |-> mode,
                   model |-> selected_model]
             ELSE IF m \notin weights_ok
             THEN [err |-> "ModelLoadError", mode |-> mode,
                   model |-> selected_model]
             ELSE [err |-> "", mode |-> "local", model |-> m]

\* ------------------------------------------------------------ cache store
\* has_cache(): a complete cache is stored and it was generated by the
\* provider that is active now.
has_cache == cache # NoCache /\ cache.prov = ActiveId

\* ----------------------------------------------------------- search engine
\* One entry placed into a list already sorted by descending score, after
\* every element that scores at least as much: a stable insertion.
RECURSIVE InsertRanked(_, _)
InsertRanked(e, sorted) ==
    IF sorted = <<>> THEN <<e>>
    ELSE IF ScoreGeq(Head(sorted).score, e.score)
         THEN <<Head(sorted)>> \o InsertRanked(e, Tail(sorted))
         ELSE <<e>> \o sorted

RECURSIVE SortRanked(_)
SortRanked(scored) ==
    IF scored = <<>> THEN <<>>
    ELSE InsertRanked(scored[Len(scored)],
                      SortRanked(SubSeq(scored, 1, Len(scored) - 1)))

Min(a, b) == IF a < b THEN a ELSE b

\* The entries of the cache scored against the query, in cache order.
Scored(q) ==
    [j \in 1 .. Len(cache.entries) |->
        [id |-> cache.entries[j].id,
         score |-> Cosine(EmbedText(ActiveId, q),
                          EmbedImage(cache.entries[j].model,
                                     cache.entries[j].id))]]

\* search(query, k): the error kind, or the top k by descending similarity.
\* remote_ok: the RemoteAPI provider's call to embed the query succeeded
\* (a LocalModel provider embeds in process).
search(q, k, remote_ok) ==
    IF k < 1 THEN [err |-> "InvalidArgument", results |-> <<>>]
    ELSE IF cache # NoCache /\ cache.prov # ActiveId
    THEN [err |-> "ModelMismatch", results |-> <<>>]
    ELSE IF ~has_cache THEN [err |-> "CacheNotReady", results |-> <<>>]
    ELSE IF mode = "api" /\ ~remote_ok
    THEN [err |-> "Transient", results |-> <<>>]
    ELSE [err |-> "",
          results |-> SubSeq(SortRanked(Scored(q)), 1,
                             Min(k, Len(cache.entries)))]


\* ---------------------------------------------------------- responses
Reply(op, arg, status, detail) ==
    [NoResp EXCEPT !.op = op, !.arg = arg, !.status = status,
                   !.detail = detail]

ModeVars == <<mode, selected_model>>
CredVars == <<api_key, base_url>>
RegistryVars == <<downloaded, weights_ok>>
CacheVars == <<cache, gen, tasks>>

\* ------------------------------------------------------------ handlers
\* search_images answering an engine error with an empty result list.
search_images_swallow(q, k) ==
    /\ alive
    /\ \E remote_ok \in (IF mode = "api" THEN BOOLEAN ELSE {TRUE}) :
         resp' = [NoResp EXCEPT !.op = "search_images", !.q = q, !.k = k,
                                !.status = 200,
                                !.results = search(q, k, remote_ok).results]
    /\ UNCHANGED <<alive, ModeVars, CredVars, RegistryVars, CacheVars>>

\* search_images passing the default n_results instead of the request's.
search_images_default_k(q, k) ==
    /\ alive
    /\ \E remote_ok \in (IF mode = "api" THEN BOOLEAN ELSE {TRUE}) :
         LET r == search(q, 5, remote_ok)
         IN  resp' = IF r.err = ""
                     THEN [NoResp EXCEPT !.op = "search_images", !.q = q,
                                         !.k = k, !.status = 200,
                                         !.results = r.results]
                     ELSE [NoResp EXCEPT !.op = "search_images", !.q = q,
                                         !.k = k, !.status = 500,
                                         !.detail = r.err]
    /\ UNCHANGED <<alive, ModeVars, CredVars, RegistryVars, CacheVars>>

\* search_images raising n_results to at least 1 before the engine sees it.
search_images_clamp_k(q, k) ==
    /\ alive
    /\ \E remote_ok \in (IF mode = "api" THEN BOOLEAN ELSE {TRUE}) :
         LET r == search(q, IF k < 1 THEN 1 ELSE k, remote_ok)
         IN  resp' = IF r.err = ""
                     THEN [NoResp EXCEPT !.op = "search_images", !.q = q,
                                         !.k = k, !.status = 200,
                                         !.results = r.results]
                     ELSE [NoResp EXCEPT !.op = "search_images", !.q = q,
                                         !.k = k, !.status = 500,
                                         !.detail = r.err]
    /\ UNCHANGED <<alive, ModeVars, CredVars, RegistryVars, CacheVars>>

\* search_images answering a refused search with what the cache holds,
\* unranked, as best-effort results.
search_images_best_effort(q, k) ==
    /\ alive
    /\ \E remote_ok \in (IF mode = "api" THEN BOOLEAN ELSE {TRUE}) :
         LET r == search(q, k, remote_ok)
         IN  resp' = IF r.err = ""
                     THEN [NoResp EXCEPT !.op = "search_images", !.q = q,
                                         !.k = k, !.status = 200,
                                         !.results = r.results]
                     ELSE [NoResp EXCEPT !.op = "search_images", !.q = q,
                                         !.k = k, !.status = 500,
                                         !.detail = r.err,
                                         !.results = Scored(q)]
    /\ UNCHANGED <<alive, ModeVars, CredVars, RegistryVars, CacheVars>>

\* search_images running off the event loop: the cache is checked against
\* the provider active now, the query is embedded by the provider p that
\* is active once a switch has committed in between.
search_images_torn(q, k) ==
    /\ alive
    /\ \E p \in Providers :
         LET r == search(q, k, TRUE)
             torn == [j \in 1 .. Len(cache.entries) |->
                        [id |-> cache.entries[j].id,
                         score |-> Cosine(EmbedText(p, q),
                                     EmbedImage(cache.entries[j].model,
                                                cache.entries[j].id))]]
         IN  resp' = IF r.err = ""
                     THEN [NoResp EXCEPT !.op = "search_images", !.q = q,
                                         !.k = k, !.status = 200,
                                         !.results =
                                            SubSeq(SortRanked(torn), 1,
                                                   Len(r.results))]
                     ELSE [NoResp EXCEPT !.op = "search_images", !.q = q,
                                         !.k = k, !.status = 500,
                                         !.detail = r.err]
    /\ UNCHANGED <<alive, ModeVars, CredVars, RegistryVars, CacheVars>>

\* POST /search
search_images(q, k) ==
    /\ alive
    /\ \E remote_ok \in (IF mode = "api" THEN BOOLEAN ELSE {TRUE}) :
         LET r == search(q, k, remote_ok)
         IN  resp' = IF r.err = ""
                     THEN [NoResp EXCEPT !.op = "search_images", !.q = q,
                                         !.k = k, !.status = 200,
                                         !.results = r.results]
                     ELSE [NoResp EXCEPT !.op = "search_images", !.q = q,
                                         !.k = k, !.status = 500,
                                         !.detail = r.err]
    /\ UNCHANGED <<alive, ModeVars, CredVars, RegistryVars, CacheVars>>

\* generate_cache guarded by the existence of a stored cache, whichever
\* provider generated it.
generate_cache_any_cache ==
    /\ alive
    /\ IF cache = NoCache
       THEN /\ Len(tasks) < MaxPending
            /\ tasks' = Append(tasks, [busy |-> gen # NoGen])
            /\ resp' = Reply("generate_cache", "", 200,
                             "Cache generation started")
       ELSE /\ tasks' = tasks
            /\ resp' = Reply("generate_cache", "", 200,
                             "Cache already exists")
    /\ UNCHANGED <<alive, ModeVars, CredVars, RegistryVars, cache, gen>>

\* POST /generate-cache: the task is queued and runs after the response.
\* busy: a generation was running when the request was handled.
generate_cache ==
    /\ alive
    /\ IF ~has_cache
       THEN /\ Len(tasks) < MaxPending
            /\ tasks' = Append(tasks, [busy |-> gen # NoGen])
            /\ resp' = Reply("generate_cache", "", 200,
                             "Cache generation started")
       ELSE /\ tasks' = tasks
            /\ resp' = Reply("generate_cache", "", 200,
                             "Cache already exists")
    /\ UNCHANGED <<alive, ModeVars, CredVars, RegistryVars, cache, gen>>

\* GET /config
get_config ==
    /\ alive
    /\ resp' = [NoResp EXCEPT !.op = "get_config", !.status = 200,
                              !.cfg = <<get_mode, get_model_name,
                                        api_key, base_url>>]
    /\ UNCHANGED <<alive, ModeVars, CredVars, RegistryVars, CacheVars>>

\* update_config assigning every field of the update, empty ones too.
update_config_overwrite(key, url) ==
    /\ alive
    /\ api_key' = key
    /\ base_url' = url
    /\ resp' = Reply("update_config", "", 200, "Config updated successfully")
    /\ UNCHANGED <<alive, ModeVars, RegistryVars, CacheVars>>

\* PUT /api-config: a field is assigned only when it is truthy.
update_config(key, url) ==
    /\ alive
    /\ api_key' = IF key # "" THEN key ELSE api_key
    /\ base_url' = IF url # "" THEN url ELSE base_url
    /\ resp' = Reply("update_config", "", 200, "Config updated successfully")
    /\ UNCHANGED <<alive, ModeVars, RegistryVars, CacheVars>>

\* download_model taking the lookup for a plain flag: an id that is not
\* configured counts as not downloaded and is fetched.
download_model_unchecked_id(model_id, transfer_ok) ==
    /\ alive
    /\ IF is_model_downloaded(model_id).val
       THEN /\ resp' = Reply("download_model", model_id, 200,
                             "Model already exists")
            /\ UNCHANGED RegistryVars
       ELSE IF transfer_ok
       THEN /\ downloaded' = downloaded \cup {model_id}
            /\ weights_ok' = weights_ok \cup {model_id}
            /\ resp' = Reply("download_model", model_id, 200,
                             "Model download completed")
       ELSE /\ resp' = Reply("download_model", model_id, 500,
                             "DownloadFailed")
            /\ UNCHANGED RegistryVars
    /\ UNCHANGED <<alive, ModeVars, CredVars, CacheVars>>

\* download_model without the early return for a model that is there.
download_model_refetch(model_id, transfer_ok) ==
    /\ alive
    /\ LET d == is_model_downloaded(model_id)
       IN  IF d.err # ""
           THEN /\ resp' = Reply("download_model", model_id, 500, d.err)
                /\ UNCHANGED RegistryVars
           ELSE IF transfer_ok
           THEN /\ downloaded' = downloaded \cup {model_id}
                /\ weights_ok' = weights_ok \cup {model_id}
                /\ resp' = Reply("download_model", model_id, 200,
                                 "Model download completed")
           ELSE /\ resp' = Reply("download_model", model_id, 500,
                                 "DownloadFailed")
                /\ UNCHANGED RegistryVars
    /\ UNCHANGED <<alive, ModeVars, CredVars, CacheVars>>

\* download_model without the early return, and a failed transfer leaving
\* the model marked not downloaded.
download_model_refetch_reset(model_id, transfer_ok) ==
    /\ alive
    /\ LET d == is_model_downloaded(model_id)
       IN  IF d.err # ""
           THEN /\ resp' = Reply("download_model", model_id, 500, d.err)
                /\ UNCHANGED RegistryVars
           ELSE IF transfer_ok
           THEN /\ downloaded' = downloaded \cup {model_id}
                /\ weights_ok' = weights_ok \cup {model_id}
                /\ resp' = Reply("download_model", model_id, 200,
                                 "Model download completed")
           ELSE /\ downloaded' = downloaded \ {model_id}
                /\ weights_ok' = weights_ok \ {model_id}
                /\ resp' = Reply("download_model", model_id, 500,
                                 "DownloadFailed")
    /\ UNCHANGED <<alive, ModeVars, CredVars, CacheVars>>

\* download_model answering before the transfer has been validated: the
\* model is marked downloaded whatever the transfer does.
download_model_mark_first(model_id, transfer_ok) ==
    /\ alive
    /\ LET d == is_model_downloaded(model_id)
       IN  IF d.err # ""
           THEN /\ resp' = Reply("download_model", model_id, 500, d.err)
                /\ UNCHANGED RegistryVars
           ELSE IF d.val
           THEN /\ resp' = Reply("download_model", model_id, 200,
                                 "Model already exists")
                /\ UNCHANGED RegistryVars
           ELSE /\ downloaded' = downloaded \cup {model_id}
                /\ weights_ok' = IF transfer_ok
                                 THEN weights_ok \cup {model_id}
                                 ELSE weights_ok
                /\ resp' = IF transfer_ok
                           THEN Reply("download_model", model_id, 200,
                                      "Model download completed")
                           ELSE Reply("download_model", model_id, 500,
                                      "DownloadFailed")
    /\ UNCHANGED <<alive, ModeVars, CredVars, CacheVars>>

\* POST /download-model.  transfer_ok: the transfer and the integrity
\* validation both succeeded.
download_model(model_id, transfer_ok) ==
    /\ alive
    /\ LET d == is_model_downloaded(model_id)
       IN  IF d.err # ""
           THEN /\ resp' = Reply("download_model", model_id, 500, d.err)
                /\ UNCHANGED RegistryVars
           ELSE IF d.val
           THEN /\ resp' = Reply("download_model", model_id, 200,
                                 "Model already exists")
                /\ UNCHANGED RegistryVars
           ELSE IF transfer_ok
           THEN /\ downloaded' = downloaded \cup {model_id}
                /\ weights_ok' = weights_ok \cup {model_id}
                /\ resp' = Reply("download_model", model_id, 200,
                                 "Model download completed")
           ELSE /\ resp' = Reply("download_model", model_id, 500,
                                 "DownloadFailed")
                /\ UNCHANGED RegistryVars
    /\ UNCHANGED <<alive, ModeVars, CredVars, CacheVars>>

\* GET /models
list_models ==
    /\ alive
    /\ resp' = [NoResp EXCEPT !.op = "list_models", !.status = 200,
                    !.models = {m \in Catalog : is_model_downloaded(m).val}]
    /\ UNCHANGED <<alive, ModeVars, CredVars, RegistryVars, CacheVars>>

\* switch_mode handing set_mode the first configured model as model id.
switch_mode_first_model(md) ==
    /\ alive
    /\ IF md \notin {"api", "local"}
       THEN /\ resp' = Reply("switch_mode", md, 400, "Invalid mode")
            /\ UNCHANGED ModeVars
       ELSE LET r == set_mode(md, "clip-s")
            IN  /\ mode' = r.mode
                /\ selected_model' = r.model
                /\ resp' = IF r.err = ""
                           THEN Reply("switch_mode", md, 200, "Switched")
                           ELSE Reply("switch_mode", md, 500, r.err)
    /\ UNCHANGED <<alive, CredVars, RegistryVars, CacheVars>>

\* PUT /mode/{mode}
switch_mode(md) ==
    /\ alive
    /\ IF md \notin {"api", "local"}
       THEN /\ resp' = Reply("switch_mode", md, 400, "Invalid mode")
            /\ UNCHANGED ModeVars
       ELSE LET r == set_mode(md, NoModel)
            IN  /\ mode' = r.mode
                /\ selected_model' = r.model
                /\ resp' = IF r.err = ""
                           THEN Reply("switch_mode", md, 200, "Switched")
                           ELSE Reply("switch_mode", md, 500, r.err)
    /\ UNCHANGED <<alive, CredVars, RegistryVars, CacheVars>>

\* switch_model with the catalog looked up before the mode is checked.
switch_model_catalog_first(model_id) ==
    /\ alive
    /\ IF model_id \notin Catalog
       THEN /\ resp' = Reply("switch_model", model_id, 404,
                             "Model not defined in configuration")
            /\ UNCHANGED ModeVars
       ELSE IF get_mode # "local"
       THEN /\ resp' = Reply("switch_model", model_id, 400,
                     "Must switch to local mode before changing model")
            /\ UNCHANGED ModeVars
       ELSE IF ~is_model_downloaded(model_id).val
       THEN /\ resp' = Reply("switch_model", model_id, 412,
                             "Model not downloaded yet")
            /\ UNCHANGED ModeVars
       ELSE LET r == set_mode("local", model_id)
            IN  /\ mode' = r.mode
                /\ selected_model' = r.model
                /\ resp' = IF r.err = ""
                           THEN Reply("switch_model", model_id, 200,
                                      "Successfully switched to model")
                           ELSE Reply("switch_model", model_id, 500,
                                      "Model loading failed")
    /\ UNCHANGED <<alive, CredVars, RegistryVars, CacheVars>>

\* switch_model without the check of the model files.
switch_model_no_file_check(model_id) ==
    /\ alive
    /\ IF get_mode # "local"
       THEN /\ resp' = Reply("switch_model", model_id, 400,
                     "Must switch to local mode before changing model")
            /\ UNCHANGED ModeVars
       ELSE IF model_id \notin Catalog
       THEN /\ resp' = Reply("switch_model", model_id, 404,
                             "Model not defined in configuration")
            /\ UNCHANGED ModeVars
       ELSE LET r == set_mode("local", model_id)
            IN  /\ mode' = r.mode
                /\ selected_model' = r.model
                /\ resp' = IF r.err = ""
                           THEN Reply("switch_model", model_id, 200,
                                      "Successfully switched to model")
                           ELSE Reply("switch_model", model_id, 500,
                                      "Model loading failed")
    /\ UNCHANGED <<alive, CredVars, RegistryVars, CacheVars>>

\* switch_model assigning the selected model on the service before the
\* provider is loaded, as the startup block does.
switch_model_assign_first(model_id) ==
    /\ alive
    /\ IF get_mode # "local"
       THEN /\ resp' = Reply("switch_model", model_id, 400,
                     "Must switch to local mode before changing model")
            /\ UNCHANGED ModeVars
       ELSE IF model_id \notin Catalog
       THEN /\ resp' = Reply("switch_model", model_id, 404,
                             "Model not defined in configuration")
            /\ UNCHANGED ModeVars
       ELSE IF ~is_model_downloaded(model_id).val
       THEN /\ resp' = Reply("switch_model", model_id, 412,
                             "Model not downloaded yet")
            /\ UNCHANGED ModeVars
       ELSE LET r == set_mode("local", model_id)
            IN  /\ mode' = "local"
                /\ selected_model' = model_id
                /\ resp' = IF r.err = ""
                           THEN Reply("switch_model", model_id, 200,
                                      "Successfully switched to model")
                           ELSE Reply("switch_model", model_id, 500,
                                      "Model loading failed")
    /\ UNCHANGED <<alive, CredVars, RegistryVars, CacheVars>>

\* switch_model assigning the fields of the shared service itself once the
\* id is known to the catalog, as the start-up code assigns the mode.
switch_model_direct(model_id) ==
    /\ alive
    /\ IF get_mode # "local"
       THEN /\ resp' = Reply("switch_model", model_id, 400,
                     "Must switch to local mode before changing model")
            /\ UNCHANGED ModeVars
       ELSE IF model_id \notin Catalog
       THEN /\ resp' = Reply("switch_model", model_id, 404,
                             "Model not defined in configuration")
            /\ UNCHANGED ModeVars
       ELSE /\ mode' = "local"
            /\ selected_model' = model_id
            /\ resp' = Reply("switch_model", model_id, 200,
                             "Successfully switched to model")
    /\ UNCHANGED <<alive, CredVars, RegistryVars, CacheVars>>

\* PUT /model/{model_id}
switch_model(model_id) ==
    /\ alive
    /\ IF get_mode # "local"
       THEN /\ resp' = Reply("switch_model", model_id, 400,
                     "Must switch to local mode before changing model")
            /\ UNCHANGED ModeVars
       ELSE IF model_id \notin Catalog
       THEN /\ resp' = Reply("switch_model", model_id, 404,
                             "Model not defined in configuration")
            /\ UNCHANGED ModeVars
       ELSE IF ~is_model_downloaded(model_id).val
       THEN /\ resp' = Reply("switch_model", model_id, 412,
                             "Model not downloaded yet")
            /\ UNCHANGED ModeVars
       ELSE LET r == set_mode("local", model_id)
            IN  /\ mode' = r.mode
                /\ selected_model' = r.model
                /\ resp' = IF r.err = ""
                           THEN Reply("switch_model", model_id, 200,
                                      "Successfully switched to model")
                           ELSE Reply("switch_model", model_id, 500,
                                      "Model loading failed")
    /\ UNCHANGED <<alive, CredVars, RegistryVars, CacheVars>>

\* ------------------------------------------- the background generation
\* A queued task starts search_engine.generate_cache(): a no-op when a
\* generation is in flight (or no provider is active), else a new run
\* under the provider active now.
run_task ==
    /\ alive
    /\ tasks # <<>>
    /\ tasks' = Tail(tasks)
    /\ gen' = IF gen # NoGen \/ mode = "none" THEN gen
              ELSE [prov |-> ActiveId, next |-> 1, entries |-> <<>>]
    /\ resp' = Reply("run_task", "", 0, "")
    /\ UNCHANGED <<alive, ModeVars, CredVars, RegistryVars, cache>>

\* The run writing each entry into the published cache as it goes.
gen_embed_in_place(embed_ok) ==
    /\ alive
    /\ gen # NoGen
    /\ gen.next <= NumImages
    /\ gen' = [gen EXCEPT
                 !.next = @ + 1,
                 !.entries = IF embed_ok
                             THEN Append(@, [id |-> gen.next,
                                             model |-> ActiveId])
                             ELSE @]
    /\ cache' = [prov |-> gen.prov, entries |-> gen'.entries]
    /\ resp' = Reply("gen_embed", "", 0, "")
    /\ UNCHANGED <<alive, ModeVars, CredVars, RegistryVars, tasks>>

\* The run embeds its next image with the provider active at that moment
\* (the shared embedding service is read per image) and writes the entry,
\* tagged with that provider's model id, to the unpublished cache; or it
\* records the failure and skips the image.
gen_embed(embed_ok) ==
    /\ alive
    /\ gen # NoGen
    /\ gen.next <= NumImages
    /\ gen' = [gen EXCEPT
                 !.next = @ + 1,
                 !.entries = IF embed_ok
                             THEN Append(@, [id |-> gen.next,
                                             model |-> ActiveId])
                             ELSE @]
    /\ resp' = Reply("gen_embed", "", 0, "")
    /\ UNCHANGED <<alive, ModeVars, CredVars, RegistryVars, cache, tasks>>

\* The finished run replaces the published cache in one step.
gen_publish ==
    /\ alive
    /\ gen # NoGen
    /\ gen.next > NumImages
    /\ cache' = [prov |-> gen.prov, entries |-> gen.entries]
    /\ gen' = NoGen
    /\ resp' = Reply("gen_publish", "", 0, "")
    /\ UNCHANGED <<alive, ModeVars, CredVars, RegistryVars, tasks>>

\* The run fails (too many images failed, or the worker died): what it
\* wrote is dropped and the published cache stays.
gen_fail ==
    /\ alive
    /\ gen # NoGen
    /\ gen' = NoGen
    /\ resp' = Reply("gen_fail", "", 0, "")
    /\ UNCHANGED <<alive, ModeVars, CredVars, RegistryVars, cache, tasks>>


\* ------------------------------------------------------------- startup
\* A complete cache over the whole corpus, generated by provider p.
FullCache(p) ==
    [prov |-> p, entries |-> [i \in Images |-> [id |-> i, model |-> p]]]

\* The __main__ block, run on the engine as constructed (no provider
\* active, registry and persisted cache as found on disk).  cfg_mode,
\* cfg_model and cfg_gen are api_config.mode, .model and .generate_cache;
\* key and url are the credentials in force after it (in api mode the
\* configured defaults).  An exception ends the process before it serves.
Startup(cfg_mode, cfg_model, cfg_gen, key, url, dl0, ok0, cache0, transfer_ok) ==
    LET known   == cfg_model \in Catalog
        fetch   == cfg_mode = "local" /\ known /\ cfg_model \notin dl0
        fetched == fetch /\ transfer_ok
        dl1     == IF fetched THEN dl0 \cup {cfg_model} ELSE dl0
        ok1     == IF fetched THEN ok0 \cup {cfg_model} ELSE ok0
        up      == CASE cfg_mode = "local" ->
                          known /\ (~fetch \/ transfer_ok)
                                /\ cfg_model \in ok1
                     [] cfg_mode = "api" -> key # "" /\ url # ""
                     [] OTHER -> TRUE
        sel     == IF cfg_mode = "local" /\ (up \/ fetch)
                   THEN cfg_model ELSE NoModel
        id      == IF cfg_mode = "local" THEN sel ELSE cfg_mode
        serving == up /\ (cfg_gen => cfg_mode # "none")
    IN  /\ alive = serving
        /\ mode = cfg_mode
        /\ selected_model = sel
        /\ api_key = key
        /\ base_url = url
        /\ downloaded = dl1
        /\ weights_ok = ok1
        /\ cache = IF serving /\ cfg_gen THEN FullCache(id) ELSE cache0
        /\ gen = NoGen
        /\ tasks = <<>>
        /\ resp = NoResp

\* Every startup over the given registries, credentials, persisted caches
\* and generate_cache settings.
StartupOver(registries, keys, urls, caches, gens) ==
    \E cfg_mode \in {"none", "api", "local"}, cfg_model \in ModelIds,
       cfg_gen \in gens, key \in keys, url \in urls,
       dl0 \in registries, transfer_ok \in BOOLEAN, cache0 \in caches :
         \E ok0 \in SUBSET dl0 :
            Startup(cfg_mode, cfg_model, cfg_gen, key, url, dl0, ok0,
                    cache0, transfer_ok)

PersistedCaches == {NoCache} \cup {FullCache(p) : p \in Providers}

Init == StartupOver(SUBSET Catalog, Keys, Urls, PersistedCaches, BOOLEAN)

Next ==
    \/ \E q \in Queries, k \in Ks : search_images(q, k)
    \/ generate_cache
    \/ get_config
    \/ \E key \in Keys, url \in Urls : update_config(key, url)
    \/ \E m \in ModelIds, transfer_ok \in BOOLEAN :
          download_model(m, transfer_ok)
    \/ list_models
    \/ \E md \in ModeArgs : switch_mode(md)
    \/ \E m \in ModelIds : switch_model(m)
    \/ run_task
    \/ \E embed_ok \in BOOLEAN : gen_embed(embed_ok)
    \/ gen_publish
    \/ gen_fail

Spec == Init /\ [][Next]_vars

\* The mode controller and the model registry on their own: no cache is
\* stored and none is generated.
InitController == StartupOver(SUBSET Catalog, Keys, Urls, {NoCache}, {FALSE})

NextController ==
    \/ get_config
    \/ \E key \in Keys, url \in Urls : update_config(key, url)
    \/ \E m \in ModelIds, transfer_ok \in BOOLEAN :
          download_model(m, transfer_ok)
    \/ list_models
    \/ \E md \in ModeArgs : switch_mode(md)
    \/ \E m \in ModelIds : switch_model(m)

SpecController == InitController /\ [][NextController]_vars

\* The cache store and the search engine under mode and model switches,
\* on an installation where every catalogued model is downloaded and the
\* credentials are set.
InitCache == StartupOver({Catalog}, {"k1"}, {"u1"}, PersistedCaches, BOOLEAN)
             /\ weights_ok = Catalog

NextCache ==
    \/ \E q \in Queries, k \in Ks : search_images(q, k)
    \/ generate_cache
    \/ \E md \in ModeArgs : switch_mode(md)
    \/ \E m \in ModelIds : switch_model(m)
    \/ run_task
    \/ \E embed_ok \in BOOLEAN : gen_embed(embed_ok)
    \/ gen_publish
    \/ gen_fail

SpecCache == InitCache /\ [][NextCache]_vars


\* ---------------------------------------------------------------- claims
\* The last step was the handler op.
Answered(op) == resp.op = op

\* C1: in mode 'api' every switch_model(m) fails with ModeMismatch (400,
\* "Must switch to local mode ..."), whether m is unknown, catalogued but
\* not downloaded, or downloaded; the mode check comes before the
\* UnknownModel (404) and ModelNotDownloaded (412) checks, and the mode
\* state is left as it was.
C1_ApiModeRejectsSwitchModel ==
    [][(mode = "api" /\ resp'.op = "switch_model")
         => /\ resp'.status = 400
            /\ resp'.detail = "Must switch to local mode before changing model"
            /\ UNCHANGED ModeVars]_vars

C1_Witness ==
    /\ alive /\ mode = "api"
    /\ Answered("switch_model") /\ resp.status = 400
    /\ resp.arg \in downloaded

\* C2: in mode 'local', for a catalogued m: while m is not downloaded,
\* switch_model(m) fails with ModelNotDownloaded (412) and downloads
\* nothing; a download_model(m) that completes leaves m downloaded with
\* validated weights, and from then on switch_model(m) succeeds and
\* get_mode() reports 'local' with model m.
C2_SwitchAfterDownload ==
    /\ [](Answered("download_model")
             /\ resp.detail = "Model download completed"
           => resp.arg \in downloaded \cap weights_ok)
    /\ [][\A m \in Catalog :
            (mode = "local" /\ resp'.op = "switch_model" /\ resp'.arg = m)
              => /\ m \notin downloaded
                    => /\ resp'.status = 412
                       /\ UNCHANGED <<ModeVars, RegistryVars>>
                 /\ m \in weights_ok
                    => /\ resp'.status = 200
                       /\ get_mode' = "local"
                       /\ get_model_name' = m]_vars

C2_Witness ==
    /\ alive /\ Answered("switch_model") /\ resp.status = 200
    /\ get_mode = "local" /\ get_model_name = resp.arg
    /\ resp.arg \in Catalog


\* C3: a generate_cache() request issued while a generation is running
\* starts no second generation job and causes no further writes.  Stated
\* for the case that leaves no doubt: the run in flight has just published
\* its cache (has_cache() is true) when the task queued by such a request
\* starts, and the task must then leave the generation state alone.
C3_BusyRequestStartsNoRun ==
    [][(run_task /\ Head(tasks).busy /\ Answered("gen_publish") /\ has_cache)
         => gen' = gen]_vars

\* The published cache was generated by a provider other than the active
\* one.
Stale == cache # NoCache /\ cache.prov # ActiveId

\* C4: with a cache whose provenance model differs from the model identity
\* of the active provider, search returns no results, partial or other:
\* every search fails, and a search with a legal k fails with ModelMismatch.
C4_StaleCacheRefused ==
    (Answered("search_images") /\ Stale)
      => /\ resp.status = 500
         /\ resp.results = <<>>
         /\ resp.k >= 1 => resp.detail = "ModelMismatch"

C4_Witness ==
    /\ Answered("search_images") /\ resp.detail = "ModelMismatch"
    /\ cache.prov \in Catalog /\ cache.entries # <<>>
    /\ get_mode = "local" /\ get_model_name \in Catalog \ {cache.prov}

\* C5: a cache made stale by a switch can be repaired.  While the cache is
\* stale has_cache() is false; a generate_cache() request is then answered
\* "Cache generation started" and queues a job; the job, started with no
\* other generation in flight, runs under the provider active now; and when
\* a run publishes under the provider that is active, has_cache() is true
\* and a legal search on the local provider succeeds.
C5_StaleCacheRepaired ==
    /\ [](Stale => ~has_cache)
    /\ [][(Stale /\ resp'.op = "generate_cache")
            => /\ resp'.detail = "Cache generation started"
               /\ tasks' = Append(tasks, [busy |-> gen # NoGen])]_vars
    /\ [][(resp'.op = "run_task" /\ gen = NoGen /\ mode # "none")
            => gen' # NoGen /\ gen'.prov = ActiveId]_vars
    /\ []((Answered("gen_publish") /\ cache.prov = ActiveId) => has_cache)
    /\ []((Answered("search_images") /\ has_cache /\ resp.k >= 1
             /\ mode = "local")
           => resp.status = 200)

\* A search succeeds on a cache that a background run published under the
\* active model (a cache short of an image was not found at startup).
C5_Witness ==
    /\ Answered("search_images") /\ resp.status = 200
    /\ get_mode = "local" /\ cache.prov = get_model_name
    /\ cache.entries # <<>> /\ Len(cache.entries) < NumImages


\* C6 as stated: whenever has_cache() is false a search with a legal k
\* fails with CacheNotReady and returns nothing, and after a generation run
\* has published has_cache() is true.
C6_NotReadyUntilGenerated ==
    /\ (Answered("search_images") /\ ~has_cache /\ resp.k >= 1)
         => resp.detail = "CacheNotReady" /\ resp.results = <<>>
    /\ Answered("gen_publish") => has_cache

\* C6, amended: whenever has_cache() is false a search returns nothing; with
\* a legal k it fails with CacheNotReady when no cache is stored and with
\* ModelMismatch when the stored cache is another provider's.  After a run
\* has published under the provider that is active has_cache() is true, and
\* while has_cache() is true a legal search on the local provider succeeds
\* with at most k results.
C6_NoResultsWithoutCache ==
    /\ (Answered("search_images") /\ ~has_cache)
         => /\ resp.status = 500
            /\ resp.results = <<>>
            /\ resp.k >= 1
                 => resp.detail = IF cache = NoCache THEN "CacheNotReady"
                                  ELSE "ModelMismatch"
    /\ (Answered("gen_publish") /\ cache.prov = ActiveId) => has_cache
    /\ (Answered("search_images") /\ has_cache /\ resp.k >= 1)
         => /\ mode = "local" => resp.status = 200
            /\ Len(resp.results) <= resp.k

\* A search is refused with CacheNotReady while the first generation is
\* still writing.
C6_Witness ==
    /\ Answered("search_images") /\ resp.detail = "CacheNotReady"
    /\ gen # NoGen /\ gen.entries # <<>>

\* C7: a completed search(query, k) returns exactly min(k, cache size)
\* entries, each a cache entry with its similarity to the query, scores
\* non-increasing, equal scores in cache insertion order, and no entry left
\* out that would rank before one returned: the first min(k, size) elements
\* of the stable descending sort of the cache.
C7_RankedTopK ==
    (Answered("search_images") /\ resp.status = 200)
      => LET r == resp.results
             S == Scored(resp.q)
             n == Len(cache.entries)
             Pos(i) == CHOOSE j \in 1 .. n : S[j].id = r[i].id
             Before(a, pa, b, pb) ==
                 /\ ScoreGeq(a, b)
                 /\ ScoreEq(a, b) => pa < pb
         IN  /\ Len(r) = Min(resp.k, n)
             /\ \A i \in 1 .. Len(r) : \E j \in 1 .. n : S[j] = r[i]
             /\ \A i, j \in 1 .. Len(r) :
                   i < j => Before(r[i].score, Pos(i), r[j].score, Pos(j))
             /\ \A j \in 1 .. n :
                   (\A i \in 1 .. Len(r) : r[i].id # S[j].id)
                     => \A i \in 1 .. Len(r) :
                           Before(r[i].score, Pos(i), S[j].score, j)

\* A search that cut the cache to k and put a later entry first.
C7_Witness ==
    /\ Answered("search_images") /\ resp.status = 200
    /\ Len(resp.results) = resp.k /\ resp.k < Len(cache.entries)
    /\ resp.results[1].id # cache.entries[1].id

\* C8: search(query, k) with k < 1 fails with InvalidArgument in every
\* state and returns no result list.
C8_InvalidK ==
    (Answered("search_images") /\ resp.k < 1)
      => /\ resp.status = 500
         /\ resp.detail = "InvalidArgument"
         /\ resp.results = <<>>

C8_Witness ==
    /\ Answered("search_images") /\ resp.k < 1
    /\ resp.detail = "InvalidArgument"
    /\ has_cache /\ cache.entries # <<>>

\* C9: a set_mode or switch_model call that does not succeed leaves the
\* mode, the model id and the credentials of the active provider as they
\* were before the call.
C9_FailedSwitchChangesNothing ==
    [][(resp'.op \in {"switch_mode", "switch_model"} /\ resp'.status # 200)
         => UNCHANGED <<ModeVars, CredVars>>]_vars

\* A model load failure on a switch to another model.
C9_Witness ==
    /\ Answered("switch_model") /\ resp.status = 500
    /\ resp.detail = "Model loading failed"
    /\ get_mode = "local" /\ get_model_name \in Catalog \ {resp.arg}

\* C10: set_mode('api') succeeds exactly when the api key and the base URL
\* are both non-empty and fails with ConfigurationError otherwise, and the
\* serving system is never in mode 'api' with an empty credential.
C10_ApiModeNeedsCredentials ==
    /\ (alive /\ get_mode = "api") => (api_key # "" /\ base_url # "")
    /\ (Answered("switch_mode") /\ resp.arg = "api")
         => IF api_key # "" /\ base_url # ""
            THEN resp.status = 200 /\ get_mode = "api"
            ELSE /\ resp.status = 500
                 /\ resp.detail = "ConfigurationError"
                 /\ get_mode # "api"

C10_Witness ==
    /\ Answered("switch_mode") /\ resp.arg = "api"
    /\ resp.detail = "ConfigurationError"
    /\ api_key # "" /\ base_url = ""


\* C11: set_mode('local') without a model id reuses the model id that was
\* active before (local(m), api, local ends on m again) and fails with
\* ModelNotConfigured when no model id was ever activated; the serving
\* system is never in mode 'local' without a model id.
C11_LocalReusesModel ==
    /\ []((alive /\ get_mode = "local") => get_model_name \in Catalog)
    /\ [][(resp'.op = "switch_mode" /\ resp'.arg = "local")
            => IF get_model_name = NoModel
               THEN /\ resp'.status = 500
                    /\ resp'.detail = "ModelNotConfigured"
                    /\ UNCHANGED ModeVars
               ELSE /\ resp'.status = 200
                    /\ get_mode' = "local"
                    /\ get_model_name' = get_model_name]_vars

\* PUT /mode/local brought back a model other than the first configured.
C11_Witness ==
    /\ Answered("switch_mode") /\ resp.arg = "local" /\ resp.status = 200
    /\ get_mode = "local" /\ get_model_name = "clip-l"

\* C12: an id that is not in the catalog is reported as UnknownModel by
\* download_model (through the lookup is_downloaded) and by switch_model in
\* local mode: never as "not downloaded", never as a plain answer, and
\* with no transfer and no change of the registry or of the mode.
C12_UnknownModel ==
    /\ [](downloaded \subseteq Catalog)
    /\ [](\A m \in ModelIds \ Catalog :
            is_model_downloaded(m).err = "UnknownModel")
    /\ [][(resp'.arg \notin Catalog
             /\ \/ resp'.op = "download_model"
                \/ resp'.op = "switch_model" /\ get_mode = "local")
            => /\ IF resp'.op = "download_model"
                  THEN resp'.status = 500 /\ resp'.detail = "UnknownModel"
                  ELSE /\ resp'.status = 404
                       /\ resp'.detail = "Model not defined in configuration"
               /\ UNCHANGED <<RegistryVars, ModeVars>>]_vars

C12_Witness ==
    /\ Answered("download_model") /\ resp.arg \notin Catalog
    /\ resp.detail = "UnknownModel" /\ downloaded # Catalog

\* C13: download_model is idempotent: for a model already marked
\* downloaded it answers success ("Model already exists"), transfers
\* nothing and changes nothing, so a second call after a completed one
\* leaves the state of the first.
C13_DownloadIdempotent ==
    [][(resp'.op = "download_model" /\ resp'.arg \in downloaded)
         => /\ resp'.status = 200
            /\ resp'.detail = "Model already exists"
            /\ UNCHANGED <<alive, ModeVars, CredVars, RegistryVars,
                           CacheVars>>]_vars

\* The second of two calls in a row.
C13_Witness ==
    /\ Answered("download_model") /\ resp.detail = "Model already exists"
    /\ resp.arg \in downloaded \cap weights_ok

\* C14: whatever the order of download_model(m) calls, a model once marked
\* downloaded stays marked: a later call for it performs no transfer, and a
\* failed call resets nothing.
C14_DownloadedStays ==
    [][/\ downloaded \subseteq downloaded'
       /\ weights_ok \subseteq weights_ok'
       /\ (resp'.op = "download_model" /\ resp'.status # 200)
            => UNCHANGED RegistryVars]_vars

\* A later call for the one model that is downloaded.
C14_Witness ==
    /\ Answered("download_model") /\ resp.status = 200
    /\ resp.detail # "Model download completed"
    /\ downloaded = {resp.arg}

\* C15: a model becomes marked downloaded only by a download_model whose
\* transfer and validation succeeded; a failed one answers DownloadFailed
\* and leaves the model not downloaded, and the retry is still possible.
C15_MarkedAfterValidation ==
    /\ [][\A m \in ModelIds :
            (m \in downloaded' /\ m \notin downloaded)
              => /\ resp'.op = "download_model" /\ resp'.arg = m
                 /\ resp'.status = 200
                 /\ resp'.detail = "Model download completed"
                 /\ m \in weights_ok']_vars
    /\ []((Answered("download_model") /\ resp.detail = "DownloadFailed")
            => /\ resp.status = 500
               /\ resp.arg \in Catalog \ downloaded
               /\ ENABLED download_model(resp.arg, TRUE))
    /\ []((Answered("download_model") /\ resp.status = 500)
            => resp.detail \in {"DownloadFailed", "UnknownModel"})

\* A download completed, bringing the number of downloaded models to two.
C15_Witness ==
    /\ Answered("download_model")
    /\ resp.detail = "Model download completed"
    /\ downloaded = Catalog

\* C19: the live ModeState (mode, active model id and, for the api
\* provider, the api key and the base URL) changes only in a successful
\* switch_mode or switch_model; every other operation, a credentials
\* update included, leaves it as it was.
C19_ModeStateOnlyBySwitch ==
    [][(ModeVars' # ModeVars \/ (get_mode = "api" /\ CredVars' # CredVars))
         => /\ resp'.op \in {"switch_mode", "switch_model"}
            /\ resp'.status = 200]_vars

\* C20: whenever the serving system is in mode 'local', the active model id
\* is in the catalog and marked downloaded, whichever way it was activated
\* (start-up, PUT /mode/local, PUT /model/{id}).
C20_LocalModelDownloaded ==
    (alive /\ get_mode = "local") => get_model_name \in Catalog \cap downloaded

\* PUT /model/{id} activated a second downloaded model.
C20_Witness ==
    /\ Answered("switch_model") /\ resp.status = 200
    /\ get_mode = "local" /\ get_model_name = resp.arg
    /\ downloaded = Catalog

\* C18: every entry of the published cache carries the model id recorded
\* as the cache's provenance, also when a mode or model switch commits
\* while a background generation is running.
C18_EntriesMatchProvenance ==
    \A j \in 1 .. Len(cache.entries) : cache.entries[j].model = cache.prov

\* C16: a switch is atomic for the searches around it.  A search embeds
\* the query and reads the cache under one active provider, the one the
\* cache was checked against, and changes none of it; the mode and the
\* model change only in one successful switch step, to what that one
\* request asked for, so no two switches interleave and a search after the
\* switch runs under the new provider.
C16_SearchUnderOneProvider ==
    /\ []((Answered("search_images") /\ resp.status = 200)
            => /\ cache.prov = ActiveId
               /\ \A i \in 1 .. Len(resp.results) :
                    \E j \in 1 .. Len(cache.entries) :
                       /\ cache.entries[j].id = resp.results[i].id
                       /\ resp.results[i].score
                            = Cosine(EmbedText(ActiveId, resp.q),
                                     EmbedImage(cache.entries[j].model,
                                                cache.entries[j].id)))
    /\ [][/\ resp'.op = "search_images"
               => UNCHANGED <<ModeVars, CredVars, RegistryVars, CacheVars>>
          /\ ModeVars' # ModeVars
               => /\ resp'.op \in {"switch_mode", "switch_model"}
                  /\ resp'.status = 200
                  /\ IF resp'.op = "switch_model"
                     THEN get_mode' = "local" /\ get_model_name' = resp'.arg
                     ELSE /\ get_mode' = resp'.arg
                          /\ get_model_name' = get_model_name]_vars

\* A search answered under a provider other than the one the running
\* generation started under: a switch has committed since.
C16_Witness ==
    /\ Answered("search_images") /\ resp.status = 200
    /\ Len(resp.results) = NumImages
    /\ gen # NoGen /\ gen.prov # ActiveId

\* C17: the published cache is replaced only by the one step in which a
\* finished generation publishes everything it wrote; while a generation
\* is writing, the published cache (or its absence) stays what it was, a
\* search answers from it, and a generation that fails leaves it intact.
C17_PublishBySwap ==
    /\ [][/\ cache' # cache
               => /\ resp'.op = "gen_publish"
                  /\ gen # NoGen /\ gen.next > NumImages
                  /\ cache' = [prov |-> gen.prov, entries |-> gen.entries]
                  /\ gen' = NoGen
          /\ resp'.op \in {"gen_embed", "gen_fail", "run_task"}
               => cache' = cache]_vars
    /\ []((Answered("search_images") /\ resp.status = 200)
            => /\ has_cache
               /\ Len(resp.results) = Min(resp.k, Len(cache.entries))
               /\ \A i \in 1 .. Len(resp.results) :
                    \E j \in 1 .. Len(cache.entries) :
                       cache.entries[j].id = resp.results[i].id)

\* A search answered from the published cache while a generation has
\* written entries that are not published.
C17_Witness ==
    /\ Answered("search_images") /\ resp.status = 200
    /\ gen # NoGen /\ gen.entries # <<>>
    /\ Len(gen.entries) < Len(cache.entries)

====
